---- MODULE Spec2Model ----
(***************************************************************************)
(* typescript-errors: the registry-bound error constructor, the            *)
(* discriminator isError and the wrappers mayFail, promiseMayFail,         *)
(* promiseMapMayFail and throwIfError, driven by a caller that makes one   *)
(* call after another against a registry fixed at init().                  *)
(*                                                                         *)
(* JavaScript values are records with a "kind" field.  A completion is how *)
(* an evaluation ends: [type |-> "return" | "throw", value |-> v].  The    *)
(* wrappers' completions also carry "made", the number of `new TSError`    *)
(* expressions they evaluated.                                             *)
(***************************************************************************)
EXTENDS Integers, Sequences, FiniteSets, TLC

VARIABLES
  errorMap,     \* the registry the facade was bound to
  pc,           \* "idle" | "awaiting" | "done": where the caller's current call is
  call,         \* the operation called and its arguments
  promises,     \* the awaitables handed to the call, each pending or settled
  settleOrder,  \* the indices of `promises` in the order they settled
  result        \* the call's completion once pc = "done"

vars == <<errorMap, pc, call, promises, settleOrder, result>>

\* Longest list of awaitables handed to promiseMapMayFail.
MaxN == 2

----------------------------------------------------------------------------
\* JavaScript values

Undefined == [kind |-> "undefined"]
Null == [kind |-> "null"]
Str(s) == [kind |-> "string", s |-> s]
Num(n) == [kind |-> "number", n |-> n]
Bool(b) == [kind |-> "boolean", b |-> b]
Fn(name) == [kind |-> "function", name |-> name]
Array(items) == [kind |-> "array", items |-> items]
NativeError(m) == [kind |-> "Error", message |-> m]

\* A meta mapping over the keys the model uses; an absent key reads undefined.
Meta(customText, errors, results) ==
  [kind |-> "object", customText |-> customText, errors |-> errors,
   results |-> results]

EmptyMeta == Meta(Undefined, Undefined, Undefined)

\* x ?? y takes y exactly when x is undefined or null.
Nullish(x) == x.kind \in {"undefined", "null"}

\* if (x) / !x: undefined, null and the empty string are falsy (the only
\* falsy values an optional string argument can hold).
Falsy(x) == Nullish(x) \/ (x.kind = "string" /\ x.s = "")

\* obj.key, undefined when the object has no such key.
Prop(obj, key) == IF key \in DOMAIN obj THEN obj[key] ELSE Undefined

\* String(v)
StringOf(v) ==
  CASE v.kind = "undefined" -> "undefined"
    [] v.kind = "null" -> "null"
    [] v.kind = "string" -> v.s
    [] v.kind = "number" -> ToString(v.n)
    [] v.kind \in {"Error", "TSError"} ->
         IF v.message = "" THEN "Error" ELSE "Error: " \o v.message
    [] OTHER -> "[object Object]"

Return(v) == [type |-> "return", value |-> v]
Throw(e) == [type |-> "throw", value |-> e]

----------------------------------------------------------------------------
\* Registries

Entry(message, statusCode) == [message |-> message, statusCode |-> statusCode]

\* The registry of the test suite and the README, with an entry without
\* status, an entry whose message function throws, and the empty-string key.
TEST_ERRORS ==
  ("test:error" :> Entry(Str("Test error"), Num(400))) @@
  ("test:error:functionMessage" :> Entry(Fn("fnCodeMeta"), Num(400))) @@
  ("test:error:somethingElse" :> Entry(Str("Something else went wrong"), Num(403))) @@
  ("test:error:throws" :> Entry(Fn("fnThrows"), Undefined)) @@
  ("" :> Entry(Str("Empty code"), Num(418)))

\* A second registry: every other shape a message entry can take.
OTHER_ERRORS ==
  ("E1" :> Entry(Str("boom"), Num(400))) @@
  ("E2" :> Entry(Fn("fnDyn"), Undefined)) @@
  ("E3" :> Entry(Fn("fnUndefined"), Num(403))) @@
  ("E4" :> Entry(Fn("fnNull"), Undefined)) @@
  ("E5" :> Entry(Fn("fnEmpty"), Num(0))) @@
  ("E6" :> Entry(Str(""), Undefined)) @@
  ("E7" :> Entry(Fn("fnCause"), Num(502)))

Registries == {TEST_ERRORS, OTHER_ERRORS}

\* The message functions of the registries, applied to the argument object
\* the constructor builds.
MessageFn(name, args) ==
  CASE name = "fnCodeMeta" ->
         Return(Str("Test error from function " \o StringOf(Str(args.code)) \o " "
                    \o StringOf(IF Nullish(args.meta) THEN Undefined
                                ELSE args.meta.customText)))
    [] name = "fnDyn" -> Return(Str("dyn:" \o args.code))
    [] name = "fnCause" ->
         Return(Str("caused by " \o StringOf(Prop(args, "cause"))))
    [] name = "fnUndefined" -> Return(Undefined)
    [] name = "fnNull" -> Return(Null)
    [] name = "fnEmpty" -> Return(Str(""))
    [] name = "fnThrows" -> Throw(NativeError("message function failed"))

----------------------------------------------------------------------------
\* errors.ts

DefaultStatusCode == 500

isErrorCode(em, code) == code \in DOMAIN em

getErrorMessage(em, args) ==
  IF ~Falsy(args.message) THEN Return(args.message)
  ELSE IF isErrorCode(em, args.code)
  THEN LET messageOrFn == em[args.code].message
       IN IF messageOrFn.kind = "function"
          THEN LET r == MessageFn(messageOrFn.name, args)
               IN IF r.type = "throw" THEN r
                  ELSE IF Nullish(r.value) THEN Return(Str(args.code))
                  ELSE r
          ELSE IF Nullish(messageOrFn) THEN Return(Str(args.code))
          ELSE Return(messageOrFn)
  ELSE Return(Str(args.code))

\* getStatusCode with `||` in place of `??`: a status of 0 counts as not given.
getStatusCode_truthy(em, code, statusCode) ==
  IF ~Nullish(statusCode) /\ statusCode.n # 0 THEN statusCode.n
  ELSE IF code \in DOMAIN em /\ ~Nullish(em[code].statusCode)
          /\ em[code].statusCode.n # 0
  THEN em[code].statusCode.n
  ELSE DefaultStatusCode

getStatusCode(em, code, statusCode) ==
  IF ~Nullish(statusCode) THEN statusCode.n
  ELSE IF code \in DOMAIN em /\ ~Nullish(em[code].statusCode)
  THEN em[code].statusCode.n
  ELSE DefaultStatusCode

\* new TSError({errorMap, cause, code, message, meta, statusCode})
TSError(params) ==
  LET m == getErrorMessage(params.errorMap,
             [code |-> params.code, message |-> params.message,
              meta |-> params.meta, statusCode |-> params.statusCode])
  IN IF m.type = "throw" THEN m
     ELSE Return([kind |-> "TSError",
                  code |-> params.code,
                  message |-> m.value.s,
                  cause |-> params.cause,
                  meta |-> IF Nullish(params.meta) THEN EmptyMeta ELSE params.meta,
                  statusCode |-> getStatusCode(params.errorMap, params.code,
                                               params.statusCode)])

Params(em, cause, code, message, meta, statusCode) ==
  [errorMap |-> em, cause |-> cause, code |-> code, message |-> message,
   meta |-> meta, statusCode |-> statusCode]

\* A wrapper's completion `c` after evaluating `made` constructor calls.
Made(c, made) == [type |-> c.type, value |-> c.value, made |-> made]

\* A discriminator that accepts only tagged errors whose code is a key of the
\* registry it is bound to.
isError_checksRegistry(em, target, code) ==
  target.kind = "TSError" /\ isErrorCode(em, target.code)
  /\ (Falsy(code) \/ target.code = code.s)

isError(em, target, code) ==
  target.kind = "TSError" /\ (Falsy(code) \/ target.code = code.s)

\* A parameter with the default `= {}`.
DefaultMeta(meta) == IF meta.kind = "undefined" THEN EmptyMeta ELSE meta

\* mayFail without its second `return targetResp`: a plain value is dropped.
mayFail_dropsValue(em, target, code, meta) ==
  IF target.type = "return"
  THEN IF isError(em, target.value, Undefined)
       THEN Made(Return(target.value), 0)
       ELSE Made(Return(Undefined), 0)
  ELSE Made(TSError(Params(em, target.value, code, Undefined,
                           DefaultMeta(meta), Undefined)), 1)

\* `target` is how the thunk's invocation completes.
mayFail(em, target, code, meta) ==
  IF target.type = "return"
  THEN IF isError(em, target.value, Undefined)
       THEN Made(Return(target.value), 0)
       ELSE Made(Return(target.value), 0)
  ELSE Made(TSError(Params(em, target.value, code, Undefined,
                           DefaultMeta(meta), Undefined)), 1)

\* `await p` on a settled promise.
Await(p) ==
  IF p.status = "fulfilled" THEN Return(p.value) ELSE Throw(p.reason)

\* promiseMayFail wrapping a fulfilled tagged error under the outer code
\* instead of returning it.
promiseMayFail_rewraps(em, target, code, meta) ==
  LET targetRes == Await(target)
  IN IF targetRes.type = "return" /\ ~isError(em, targetRes.value, Undefined)
     THEN Made(Return(targetRes.value), 0)
     ELSE Made(TSError(Params(em, targetRes.value, code, Undefined,
                              DefaultMeta(meta), Undefined)), 1)

\* `target` is the settled awaitable.
promiseMayFail(em, target, code, meta) ==
  LET targetRes == Await(target)
  IN IF targetRes.type = "return"
     THEN IF isError(em, targetRes.value, Undefined)
          THEN Made(Return(targetRes.value), 0)
          ELSE Made(Return(targetRes.value), 0)
     ELSE Made(TSError(Params(em, targetRes.value, code, Undefined,
                              DefaultMeta(meta), Undefined)), 1)

\* A join that gives up at the first rejection, as Promise.all does.
allSettledReady_shortCircuit(map) ==
  \/ \E i \in 1..Len(map) : map[i].status = "rejected"
  \/ \A i \in 1..Len(map) : map[i].status # "pending"

\* A join that collects the outcomes as they arrive.
allSettled_settleOrder(map, order) == [i \in 1..Len(map) |-> map[order[i]]]

\* Promise.allSettled: fulfils once no input is pending ...
allSettledReady(map) == \A i \in 1..Len(map) : map[i].status # "pending"

\* ... with the outcomes in input order, whatever order they settled in.
allSettled(map, order) == [i \in 1..Len(map) |-> map[i]]

\* promiseMapMayFail spreading meta last, { errors, results, ...meta }: the
\* caller's entries under the two keys survive.
promiseMapMayFail_callerWins(em, map, order, code, meta) ==
  LET resolved == allSettled(map, order)
      failed(item) ==
        item.status = "rejected" \/ isError(em, Prop(item, "value"), Undefined)
      fulfilled(item) == item.status = "fulfilled"
      errors == SelectSeq(resolved, failed)
      results == SelectSeq(resolved, fulfilled)
      m == DefaultMeta(meta)
  IN IF Len(errors) # 0
     THEN Made(TSError(Params(em, Undefined, code, Undefined,
                              Meta(m.customText,
                                   IF Nullish(m.errors) THEN Array(errors)
                                   ELSE m.errors,
                                   IF Nullish(m.results) THEN Array(results)
                                   ELSE m.results),
                              Undefined)), 1)
     ELSE Made(Return(Array([i \in 1..Len(results) |-> results[i].value])), 0)

promiseMapMayFail(em, map, order, code, meta) ==
  LET resolved == allSettled(map, order)
      failed(item) ==
        item.status = "rejected" \/ isError(em, Prop(item, "value"), Undefined)
      fulfilled(item) == item.status = "fulfilled"
      errors == SelectSeq(resolved, failed)
      results == SelectSeq(resolved, fulfilled)
      m == DefaultMeta(meta)
  IN IF Len(errors) # 0
     THEN Made(TSError(Params(em, Undefined, code, Undefined,
                              Meta(m.customText, Array(errors), Array(results)),
                              Undefined)), 1)
     ELSE Made(Return(Array([i \in 1..Len(results) |-> results[i].value])), 0)

\* throwIfError catching the rejection and fulfilling with its reason.
throwIfError_catches(em, target, code) ==
  LET res == Await(target)
  IN IF res.type = "throw" THEN Made(Return(res.value), 0)
     ELSE IF isError(em, res.value, code) THEN Made(Throw(res.value), 0)
     ELSE Made(Return(res.value), 0)

throwIfError(em, target, code) ==
  LET res == Await(target)
  IN IF res.type = "throw" THEN Made(res, 0)
     ELSE IF isError(em, res.value, code) THEN Made(Throw(res.value), 0)
     ELSE Made(Return(res.value), 0)

newError(em, args) ==
  Made(TSError(Params(em, args.cause, args.code, args.message, args.meta,
                      args.statusCode)), 1)

----------------------------------------------------------------------------
\* index.ts

\* init with newError closed over the test registry instead of its argument.
init_otherRegistry(em) ==
  [isError |-> em, mayFail |-> em, promiseMayFail |-> em,
   promiseMapMayFail |-> em, newError |-> TEST_ERRORS, throwIfError |-> em]

\* init(errorMap): the facade's operations, each given as the registry its
\* closure holds, errors.<op>(errorMap).
init(em) ==
  [isError |-> em, mayFail |-> em, promiseMayFail |-> em,
   promiseMapMayFail |-> em, newError |-> em, throwIfError |-> em]

----------------------------------------------------------------------------
\* The caller: the inputs it draws from

\* Tagged errors made earlier with newError, one under each registry.
InputErrorA ==
  TSError(Params(TEST_ERRORS, Undefined, "test:error:functionMessage", Undefined,
                 Meta(Str("custom text"), Undefined, Undefined), Undefined)).value

InputErrorB ==
  TSError(Params(OTHER_ERRORS, Undefined, "E1", Undefined, Undefined,
                 Undefined)).value

InputErrors == {InputErrorA, InputErrorB}

PlainValues == {Num(1), Num(2)}

\* What a thunk can return and an awaitable can fulfil with.
Values == PlainValues \cup InputErrors

\* What a thunk can throw and an awaitable can reject with.
Thrown == {NativeError("test")} \cup InputErrors

\* The codes a call can name: the registry's keys and one that is no key.
Codes(em) == DOMAIN em \cup {"unknown:error"}

\* The meta argument: omitted, or a mapping.
MetaArgs ==
  { Undefined, Meta(Str("custom text"), Str("mine"), Undefined) }

MessageArgs == {Undefined, Str(""), Str("Custom message")}

StatusArgs == {Undefined, Num(0), Num(404)}

\* How the awaitables of a batch can settle.
BatchSettlements ==
  { [status |-> "fulfilled", value |-> v] : v \in PlainValues \cup {InputErrorA} } \cup
  { [status |-> "rejected", reason |-> NativeError("test")] }

Settlements ==
  { [status |-> "fulfilled", value |-> v] : v \in Values } \cup
  { [status |-> "rejected", reason |-> e] : e \in Thrown }

Pending == [status |-> "pending"]

Call(op, target, code, message, meta, statusCode, cause) ==
  [op |-> op, target |-> target, code |-> code, message |-> message,
   meta |-> meta, statusCode |-> statusCode, cause |-> cause]

NoCall ==
  Call("none", Undefined, Undefined, Undefined, Undefined, Undefined, Undefined)

NoResult == [type |-> "none"]

----------------------------------------------------------------------------
\* The state machine

Init ==
  /\ errorMap \in Registries
  /\ pc = "idle"
  /\ call = NoCall
  /\ promises = <<>>
  /\ settleOrder = <<>>
  /\ result = NoResult

\* A synchronous call runs to completion in one step.
CallSync(c, r) ==
  /\ pc = "idle"
  /\ pc' = "done"
  /\ call' = c
  /\ result' = r
  /\ UNCHANGED <<errorMap, promises, settleOrder>>

\* An asynchronous call suspends at its await on n pending awaitables.
CallAsync(c, n) ==
  /\ pc = "idle"
  /\ pc' = "awaiting"
  /\ call' = c
  /\ promises' = [i \in 1..n |-> Pending]
  /\ settleOrder' = <<>>
  /\ UNCHANGED <<errorMap, result>>

NewError ==
  \E code \in Codes(errorMap), message \in MessageArgs, meta \in MetaArgs,
     statusCode \in StatusArgs, cause \in {Undefined, NativeError("test")} :
    LET c == Call("newError", Undefined, Str(code), message, meta, statusCode, cause)
    IN CallSync(c, newError(init(errorMap).newError,
                  [code |-> code, message |-> message, meta |-> meta,
                   statusCode |-> statusCode, cause |-> cause]))

IsError ==
  \E target \in Values \cup {Undefined, NativeError("test")},
     code \in {Undefined} \cup {Str(k) : k \in Codes(errorMap) \cup {"E1"}} :
    CallSync(Call("isError", target, code, Undefined, Undefined, Undefined, Undefined),
             Made(Return(Bool(isError(init(errorMap).isError, target, code))), 0))

MayFail ==
  \E target \in {Return(v) : v \in Values} \cup {Throw(e) : e \in Thrown},
     code \in Codes(errorMap), meta \in MetaArgs :
    CallSync(Call("mayFail", target, Str(code), Undefined, meta, Undefined, Undefined),
             mayFail(init(errorMap).mayFail, target, code, meta))

PromiseMayFail ==
  \E code \in Codes(errorMap), meta \in MetaArgs :
    CallAsync(Call("promiseMayFail", Undefined, Str(code), Undefined, meta,
                   Undefined, Undefined), 1)

PromiseMapMayFail ==
  \E n \in 0..MaxN, code \in Codes(errorMap), meta \in MetaArgs :
    CallAsync(Call("promiseMapMayFail", Undefined, Str(code), Undefined, meta,
                   Undefined, Undefined), n)

ThrowIfError ==
  \E code \in {Undefined} \cup {Str(k) : k \in Codes(errorMap) \cup {"E1"}} :
    CallAsync(Call("throwIfError", Undefined, code, Undefined, Undefined,
                   Undefined, Undefined), 1)

\* The host settles one pending awaitable.
Settle ==
  /\ pc = "awaiting"
  /\ \E i \in 1..Len(promises) :
       /\ promises[i] = Pending
       /\ \E s \in IF call.op = "promiseMapMayFail" THEN BatchSettlements
                   ELSE Settlements :
            promises' = [promises EXCEPT ![i] = s]
       /\ settleOrder' = Append(settleOrder, i)
  /\ UNCHANGED <<errorMap, pc, call, result>>

\* Whether the await the call is suspended at can resume.
Ready ==
  IF call.op = "promiseMapMayFail" THEN allSettledReady(promises)
  ELSE promises[1] # Pending

\* The call resumes after its await and runs to completion.
Resume ==
  /\ pc = "awaiting"
  /\ Ready
  /\ pc' = "done"
  /\ result' =
       CASE call.op = "promiseMayFail" ->
              promiseMayFail(init(errorMap).promiseMayFail, promises[1],
                             call.code.s, call.meta)
         [] call.op = "promiseMapMayFail" ->
              promiseMapMayFail(init(errorMap).promiseMapMayFail, promises,
                                settleOrder, call.code.s, call.meta)
         [] call.op = "throwIfError" ->
              throwIfError(init(errorMap).throwIfError, promises[1], call.code)
  /\ UNCHANGED <<errorMap, call, promises, settleOrder>>

\* The caller takes the completion and is free to call again.
Finish ==
  /\ pc = "done"
  /\ pc' = "idle"
  /\ call' = NoCall
  /\ promises' = <<>>
  /\ settleOrder' = <<>>
  /\ result' = NoResult
  /\ UNCHANGED errorMap

Next ==
  \/ NewError
  \/ IsError
  \/ MayFail
  \/ PromiseMayFail
  \/ PromiseMapMayFail
  \/ ThrowIfError
  \/ Settle
  \/ Resume
  \/ Finish

Spec == Init /\ [][Next]_vars

\* The host's job queue runs a continuation whose await has settled.
FairSpec == Spec /\ WF_vars(Resume)

----------------------------------------------------------------------------
\* Properties

Done(op) == pc = "done" /\ call.op = op

\* The thunk threw, or the awaitable rejected with, `e`.
Failed(e) ==
  \/ Done("mayFail") /\ call.target = Throw(e)
  \/ Done("promiseMayFail") /\ promises[1] = [status |-> "rejected", reason |-> e]

\* The thunk returned, or the awaitable fulfilled with, `v`.
Succeeded(v) ==
  \/ Done("mayFail") /\ call.target = Return(v)
  \/ Done("promiseMayFail") /\ promises[1] = [status |-> "fulfilled", value |-> v]

\* The status the registry `em` gives `code`, 500 when it gives none.
RegistryStatus(em, code) ==
  IF code \in DOMAIN em /\ em[code].statusCode.kind = "number"
  THEN em[code].statusCode.n
  ELSE 500

\* C1: when the thunk returns (the awaitable fulfils with) a value v that is
\* no tagged error, mayFail (promiseMayFail) returns exactly v and constructs
\* no tagged error.
C1_SuccessPassThrough ==
  \A v \in Values :
    Succeeded(v) /\ v.kind # "TSError" =>
      result = [type |-> "return", value |-> v, made |-> 0]

C1_Witness ==
  /\ Done("mayFail")
  /\ call.target = Return(Num(2))
  /\ result.type = "return" /\ result.value = Num(2)

\* C2: when the thunk throws (the awaitable rejects with) e and the code c is
\* a key of the registry, the wrapper returns a new tagged error with code c,
\* cause e, the caller's meta (the empty mapping when omitted), the status
\* the registry gives c, and, for an entry whose message is a string, that
\* string as message.
C2_FailureWrapping ==
  \A e \in Thrown :
    Failed(e) /\ call.code.s \in DOMAIN errorMap =>
      /\ result.type = "return"
      /\ result.made = 1
      /\ result.value.kind = "TSError"
      /\ result.value.code = call.code.s
      /\ result.value.cause = e
      /\ result.value.meta = (IF call.meta = Undefined THEN EmptyMeta ELSE call.meta)
      /\ result.value.statusCode = RegistryStatus(errorMap, call.code.s)
      /\ errorMap[call.code.s].message.kind = "string" =>
           result.value.message = errorMap[call.code.s].message.s

\* C3: when the thunk returns (the awaitable fulfils with) a tagged error,
\* the wrapper returns that very value, whatever the outer code and meta, and
\* constructs nothing.
C3_Bubbling ==
  \A v \in InputErrors :
    Succeeded(v) => result = [type |-> "return", value |-> v, made |-> 0]

C3_Witness ==
  /\ Done("promiseMayFail")
  /\ promises[1] = [status |-> "fulfilled", value |-> InputErrorA]
  /\ call.code.s = "test:error"
  /\ call.meta # Undefined
  /\ result.value.code = "test:error:functionMessage"

\* C4: mayFail always completes by returning and the awaitable promiseMayFail
\* returns always fulfils, whatever the registry's message functions do.
C4_WrappersNeverRaise ==
  Done("mayFail") \/ Done("promiseMayFail") => result.type = "return"

\* C5: when every awaitable of the batch fulfils with a value that is no
\* tagged error, promiseMapMayFail fulfils with the values in input order,
\* whatever order they settled in.
C5_BatchSuccessOrder ==
  Done("promiseMapMayFail")
  /\ (\A i \in 1..Len(promises) :
        promises[i].status = "fulfilled" /\ promises[i].value.kind # "TSError")
  => /\ result.type = "return"
     /\ result.value.kind = "array"
     /\ Len(result.value.items) = Len(promises)
     /\ \A i \in 1..Len(promises) : result.value.items[i] = promises[i].value

C5_Witness ==
  /\ Done("promiseMapMayFail")
  /\ Len(promises) = 2
  /\ settleOrder = <<2, 1>>
  /\ result.type = "return"
  /\ result.value = Array(<<Num(1), Num(2)>>)

\* C6: when exactly one awaitable of the batch rejects and the others fulfil
\* with values that are no tagged errors, promiseMapMayFail returns one
\* tagged error with the code argument and the registry's status, whose meta
\* keeps the caller's other entries and lists the one failed outcome and the
\* N-1 succeeded outcomes.
C6_BatchOneRejected ==
  Done("promiseMapMayFail")
  /\ Cardinality({i \in 1..Len(promises) : promises[i].status = "rejected"}) = 1
  /\ (\A i \in 1..Len(promises) :
        promises[i].status = "fulfilled" => promises[i].value.kind # "TSError")
  => /\ result.type = "return"
     /\ result.value.kind = "TSError"
     /\ result.value.code = call.code.s
     /\ result.value.statusCode = RegistryStatus(errorMap, call.code.s)
     /\ result.value.meta.customText =
          (IF call.meta = Undefined THEN Undefined ELSE call.meta.customText)
     /\ result.value.meta.errors.kind = "array"
     /\ result.value.meta.results.kind = "array"
     /\ Len(result.value.meta.errors.items) = 1
     /\ Len(result.value.meta.results.items) = Len(promises) - 1
     /\ \A i \in 1..Len(result.value.meta.errors.items) :
          result.value.meta.errors.items[i].status = "rejected"
     /\ \A i \in 1..Len(result.value.meta.results.items) :
          result.value.meta.results.items[i].status = "fulfilled"

\* C7: promiseMapMayFail completes only when every awaitable has settled (a
\* rejection while others are pending does not end it), and once all have
\* settled it does complete.
C7_JoinWaitsForAll ==
  /\ [](Done("promiseMapMayFail") =>
          \A i \in 1..Len(promises) : promises[i].status # "pending")
  /\ ((/\ pc = "awaiting"
       /\ call.op = "promiseMapMayFail"
       /\ \A i \in 1..Len(promises) : promises[i].status # "pending")
      ~> Done("promiseMapMayFail"))

C7_Witness ==
  /\ pc = "awaiting"
  /\ call.op = "promiseMapMayFail"
  /\ Len(promises) = 2
  /\ promises[1].status = "rejected"
  /\ promises[2].status = "pending"

\* C8: for an awaitable that fulfils with v and a filter code k, throwIfError
\* rejects with v itself if v is a tagged error and (k is not given or
\* v.code = k), and fulfils with v otherwise.
C8_ThrowIfErrorIff ==
  \A v \in Values :
    Done("throwIfError") /\ promises[1] = [status |-> "fulfilled", value |-> v] =>
      IF v.kind = "TSError" /\ (call.code = Undefined \/ v.code = call.code.s)
      THEN result.type = "throw" /\ result.value = v
      ELSE result.type = "return" /\ result.value = v

\* C9: isError(value, code) is true exactly when value is a tagged error and
\* (no code was given or value.code = code), the empty string included.
C9_IsErrorIff ==
  Done("isError") =>
    result.value.b =
      (call.target.kind = "TSError"
       /\ (call.code = Undefined \/ call.target.code = call.code.s))

\* C10: every tagged error a call constructs has an integer statusCode: the
\* explicit status if one was given, else the status of the registry entry of
\* its code, else 500, however the message was resolved.
C10_StatusResolution ==
  pc = "done" /\ result.type = "return" /\ result.made = 1 =>
    /\ result.value.kind = "TSError"
    /\ result.value.statusCode \in Int
    /\ result.value.statusCode =
         IF call.statusCode.kind = "number" THEN call.statusCode.n
         ELSE RegistryStatus(errorMap, call.code.s)

C10_Witness ==
  /\ Done("newError")
  /\ call.code.s = "test:error"
  /\ call.statusCode = Num(0)
  /\ call.message = Str("Custom message")
  /\ result.type = "return"
  /\ result.value.statusCode = 0

\* A call constructed a tagged error: it is result.value.
Constructed == pc = "done" /\ result.type = "return" /\ result.made = 1

\* The message the registry `em` gives an error constructed with code `c`,
\* cause, meta and statusCode: the entry's string; what the entry's function
\* returns for these arguments, or c when it returns no value; c when c is no
\* key.
RegistryMessage(em, c, cause, meta, statusCode) ==
  IF c \notin DOMAIN em THEN c
  ELSE IF em[c].message.kind = "string" THEN em[c].message.s
  ELSE LET r == MessageFn(em[c].message.name,
                          [code |-> c, cause |-> cause, meta |-> meta,
                           statusCode |-> statusCode])
       IN IF Nullish(r.value) THEN c ELSE r.value.s

\* C11: with no explicit message, the message of a constructed tagged error
\* is the registry entry's string, or what the entry's function returns when
\* called with the construction arguments (the code when it returns no
\* value), or the code when the code is no key of the registry.
C11_MessageResolution ==
  Constructed /\ call.message = Undefined =>
    result.value.message =
      RegistryMessage(errorMap, result.value.code, result.value.cause,
                      result.value.meta, call.statusCode)

\* C12: when the thunk throws a tagged error carrying meta {customText: t}
\* and mayFail is called without meta under a code whose message is the
\* function of (code, meta), the message of the returned error is that
\* function's text for customText = t.
C12_MessageFromThrownMeta ==
  \A t \in InputErrors :
    /\ Done("mayFail")
    /\ call.target = Throw(t)
    /\ t.meta.customText.kind = "string"
    /\ call.meta = Undefined
    /\ call.code.s \in DOMAIN errorMap
    /\ errorMap[call.code.s].message = Fn("fnCodeMeta")
    => /\ result.type = "return"
       /\ result.value.message =
            "Test error from function " \o call.code.s \o " " \o t.meta.customText.s

\* What the unbound operation `op`, applied to the registry `em`, makes of a
\* call's arguments and settled awaitables.
Unbound(em, c, ps, order) ==
  CASE c.op = "isError" -> Made(Return(Bool(isError(em, c.target, c.code))), 0)
    [] c.op = "mayFail" -> mayFail(em, c.target, c.code.s, c.meta)
    [] c.op = "newError" ->
         newError(em, [code |-> c.code.s, message |-> c.message, meta |-> c.meta,
                       statusCode |-> c.statusCode, cause |-> c.cause])
    [] c.op = "promiseMayFail" -> promiseMayFail(em, ps[1], c.code.s, c.meta)
    [] c.op = "promiseMapMayFail" ->
         promiseMapMayFail(em, ps, order, c.code.s, c.meta)
    [] c.op = "throwIfError" -> throwIfError(em, ps[1], c.code)

\* C13: init(R) gives exactly the six operations; every call through the
\* facade completes as the unbound operation applied to R does; and a tagged
\* error made through the facade has the status, and for a string entry the
\* message, that R gives its code.
C13_FacadeBinding ==
  /\ DOMAIN init(errorMap) =
       {"isError", "mayFail", "promiseMayFail", "promiseMapMayFail", "newError",
        "throwIfError"}
  /\ pc = "done" => result = Unbound(errorMap, call, promises, settleOrder)
  /\ Constructed /\ call.statusCode = Undefined =>
       result.value.statusCode = RegistryStatus(errorMap, call.code.s)
  /\ Constructed /\ call.message = Undefined /\ call.code.s \in DOMAIN errorMap
       /\ errorMap[call.code.s].message.kind = "string" =>
       result.value.message = errorMap[call.code.s].message.s

C13_Witness ==
  /\ Done("newError")
  /\ errorMap = OTHER_ERRORS
  /\ call.code.s = "E1"
  /\ call.message = Undefined
  /\ call.statusCode = Undefined
  /\ result.type = "return"
  /\ result.value.message = "boom"
  /\ result.value.statusCode = 400

\* C14: when the thunk throws (the awaitable rejects with) a tagged error t,
\* the wrapper returns a new tagged error with the outer code and cause t,
\* never t itself, also when the two codes are equal.
C14_ThrownErrorIsWrapped ==
  \A t \in InputErrors :
    Failed(t) =>
      /\ result.type = "return"
      /\ result.made = 1
      /\ result.value.kind = "TSError"
      /\ result.value.code = call.code.s
      /\ result.value.cause = t
      /\ result.value # t

\* The settlement outcome `item` is a failure: rejected, or fulfilled with a
\* tagged error.
FailedOutcome(item) ==
  item.status = "rejected" \/ item.value.kind = "TSError"

\* The batch call returned a tagged error.
BatchError ==
  Done("promiseMapMayFail") /\ result.type = "return"
  /\ result.value.kind = "TSError"

\* C15: when promiseMapMayFail returns a tagged error, meta.errors holds
\* exactly the outcomes that are rejected or fulfilled with a tagged error,
\* meta.results exactly those fulfilled with another value, no outcome is in
\* both, and the two lengths sum to N.
C15_BatchPartition ==
  BatchError =>
    LET succeeded(item) == ~FailedOutcome(item)
        errs == result.value.meta.errors.items
        ress == result.value.meta.results.items
    IN /\ errs = SelectSeq(promises, FailedOutcome)
       /\ ress = SelectSeq(promises, succeeded)
       /\ \A i \in 1..Len(errs), j \in 1..Len(ress) : errs[i] # ress[j]
       /\ Len(errs) + Len(ress) = Len(promises)

\* C16: when an awaitable of the batch fulfils with a tagged error and none
\* rejects, promiseMapMayFail returns not an array but one new tagged error
\* with the outer code, and the inner error is found in meta.errors and
\* nowhere else in the result.
C16_FulfilledErrorFailsBatch ==
  Done("promiseMapMayFail")
  /\ (\A i \in 1..Len(promises) : promises[i].status = "fulfilled")
  /\ (\E i \in 1..Len(promises) : promises[i].value.kind = "TSError")
  => /\ result.type = "return"
     /\ result.made = 1
     /\ result.value.kind = "TSError"
     /\ result.value.code = call.code.s
     /\ result.value.cause = Undefined
     /\ \E i \in 1..Len(result.value.meta.errors.items) :
          result.value.meta.errors.items[i].value.kind = "TSError"
     /\ \A i \in 1..Len(result.value.meta.results.items) :
          result.value.meta.results.items[i].value.kind # "TSError"

\* C17: an explicit message string s, the empty string included, is the
\* message of the constructed tagged error, whatever the registry holds for
\* the code.
C17_ExplicitMessageWins ==
  Done("newError") /\ call.message.kind = "string" =>
    /\ result.type = "return"
    /\ result.value.message = call.message.s

\* C18: the message of every constructed tagged error is a non-empty string.
C18_MessageNonEmpty ==
  Constructed => result.value.message # ""

\* C19: when a wrapper wraps a thrown or rejected e under a code whose
\* message is a function, the function is called with cause = e and the
\* message is what it returns for that cause.
C19_MessageFnReceivesCause ==
  \A e \in Thrown :
    Failed(e) /\ Constructed /\ call.code.s \in DOMAIN errorMap
    /\ errorMap[call.code.s].message.kind = "function" =>
      result.value.message =
        RegistryMessage(errorMap, call.code.s, e, DefaultMeta(call.meta), Undefined)

----------------------------------------------------------------------------
\* Concurrent invocations: the same variables, pc, call and result now one per
\* invocation, promises the awaitables the invocations share, settleOrder the
\* order the host settled them in.

Invocations == {"a", "b"}

Awaitables == {"p", "q"}

\* The lists of awaitables a batch call is given.
BatchTargets == { <<>>, <<"p">>, <<"p", "q">>, <<"q", "p">> }

ConcSettlements ==
  { [status |-> "fulfilled", value |-> v] : v \in {Num(1), InputErrorA} } \cup
  { [status |-> "rejected", reason |-> NativeError("test")] }

ConcCodes(em) == DOMAIN em \cap {"test:error", "test:error:throws", "E1", "E2"}

\* The arguments kept in one binding that every invocation reads, instead of
\* each invocation's own parameters.
Args_moduleLevel(calls, s) ==
  IF calls["a"].op = "none" THEN calls[s] ELSE calls["a"]

\* The parameters of invocation s: each call of an operation binds its own
\* target (map), code and meta.
Args(calls, s) == calls[s]

\* The settlement outcomes of the awaitables `targets`, in the order given.
Outcomes(ps, targets) == [i \in 1..Len(targets) |-> ps[targets[i]]]

\* The positions in `targets` in the order their awaitables settled.
OrderOf(targets, so) ==
  LET given(x) == \E j \in 1..Len(targets) : targets[j] = x
      settled == SelectSeq(so, given)
  IN [i \in 1..Len(settled) |->
        CHOOSE j \in 1..Len(targets) : targets[j] = settled[i]]

\* Whether the await of the invocation with arguments c can resume.
ConcReady(c, ps) ==
  IF c.op = "promiseMapMayFail" THEN allSettledReady(Outcomes(ps, c.target))
  ELSE ps[c.target] # Pending

\* What the invocation with arguments c does after its await, `ops` being
\* the facade's operations.
Continue(ops, c, ps, so) ==
  CASE c.op = "promiseMayFail" ->
         promiseMayFail(ops.promiseMayFail, ps[c.target], c.code.s, c.meta)
    [] c.op = "promiseMapMayFail" ->
         promiseMapMayFail(ops.promiseMapMayFail, Outcomes(ps, c.target),
                           OrderOf(c.target, so), c.code.s, c.meta)
    [] c.op = "throwIfError" ->
         throwIfError(ops.throwIfError, ps[c.target], c.code)

ConcInit ==
  /\ errorMap \in Registries
  /\ pc = [s \in Invocations |-> "idle"]
  /\ call = [s \in Invocations |-> NoCall]
  /\ promises = [p \in Awaitables |-> Pending]
  /\ settleOrder = <<>>
  /\ result = [s \in Invocations |-> NoResult]

\* Invocation s is called with arguments c and suspends at its await.
Invoke(s, c) ==
  /\ pc[s] = "idle"
  /\ pc' = [pc EXCEPT ![s] = "awaiting"]
  /\ call' = [call EXCEPT ![s] = c]
  /\ UNCHANGED <<errorMap, promises, settleOrder, result>>

ConcPromiseMayFail(s) ==
  \E target \in Awaitables, code \in ConcCodes(errorMap) :
    Invoke(s, Call("promiseMayFail", target, Str(code), Undefined, Undefined,
                   Undefined, Undefined))

ConcPromiseMapMayFail(s) ==
  \E map \in BatchTargets, code \in ConcCodes(errorMap) :
    Invoke(s, Call("promiseMapMayFail", map, Str(code), Undefined, Undefined,
                   Undefined, Undefined))

ConcThrowIfError(s) ==
  \E target \in Awaitables,
     code \in {Undefined} \cup {Str(k) : k \in ConcCodes(errorMap)} :
    Invoke(s, Call("throwIfError", target, code, Undefined, Undefined,
                   Undefined, Undefined))

\* The host settles a pending awaitable.
ConcSettle(p) ==
  /\ promises[p] = Pending
  /\ \E o \in ConcSettlements : promises' = [promises EXCEPT ![p] = o]
  /\ settleOrder' = Append(settleOrder, p)
  /\ UNCHANGED <<errorMap, pc, call, result>>

\* Invocation s resumes after its await and runs to completion.
ConcResume(s) ==
  /\ pc[s] = "awaiting"
  /\ ConcReady(Args(call, s), promises)
  /\ pc' = [pc EXCEPT ![s] = "done"]
  /\ result' = [result EXCEPT
                  ![s] = Continue(init(errorMap), Args(call, s), promises,
                                  settleOrder)]
  /\ UNCHANGED <<errorMap, call, promises, settleOrder>>

ConcNext ==
  \/ \E s \in Invocations : ConcPromiseMayFail(s)
  \/ \E s \in Invocations : ConcPromiseMapMayFail(s)
  \/ \E s \in Invocations : ConcThrowIfError(s)
  \/ \E p \in Awaitables : ConcSettle(p)
  \/ \E s \in Invocations : ConcResume(s)

ConcSpec == ConcInit /\ [][ConcNext]_vars

\* C20: under any interleaving of the invocations and of the settlements,
\* every completed invocation completed on its own settled awaitables with
\* the result the operation yields on that invocation's own arguments and
\* awaitables, and no step changes the registry.
C20_NoInterference ==
  /\ [](\A s \in Invocations :
          pc[s] = "done" =>
            /\ ConcReady(call[s], promises)
            /\ result[s] =
                 Continue(init(errorMap), call[s], promises, settleOrder))
  /\ [][errorMap' = errorMap]_vars

\* Two invocations sharing awaitable p have completed with different
\* results, q having settled before p.
C20_Witness ==
  /\ settleOrder = <<"q", "p">>
  /\ promises["p"] = [status |-> "fulfilled", value |-> InputErrorA]
  /\ pc["a"] = "done" /\ call["a"].op = "throwIfError" /\ call["a"].target = "p"
  /\ result["a"].type = "throw" /\ result["a"].value = InputErrorA
  /\ pc["b"] = "done" /\ call["b"].op = "promiseMapMayFail"
  /\ call["b"].target = <<"p", "q">>
  /\ result["b"].type = "return" /\ result["b"].value.kind = "TSError"
  /\ Len(result["b"].value.meta.errors.items) = 2

----------------------------------------------------------------------------
\* C21: when the awaitable given to throwIfError rejects with e, throwIfError
\* rejects with e itself, whatever the filter code: it constructs no tagged
\* error and does not fulfil.
C21_RejectionPassesThrough ==
  \A e \in Thrown :
    Done("throwIfError") /\ promises[1] = [status |-> "rejected", reason |-> e] =>
      /\ result.type = "throw"
      /\ result.value = e
      /\ result.made = 0

\* throwIfError with a filter code has rejected with the native error its
\* awaitable rejected with.
C21_Witness ==
  /\ Done("throwIfError")
  /\ call.code.kind = "string"
  /\ promises[1] = [status |-> "rejected", reason |-> NativeError("test")]
  /\ result.type = "throw" /\ result.value = NativeError("test")

\* C22: for a tagged error t constructed under either registry, isError
\* without a filter code is true under every bound registry, and mayFail and
\* promiseMayFail return t itself when the thunk returns (the awaitable
\* fulfils with) t, also when t's code is no key of the bound registry.
C22_DiscriminatorIgnoresRegistry ==
  \A t \in InputErrors :
    /\ Done("isError") /\ call.target = t /\ call.code = Undefined
         => result.value = Bool(TRUE)
    /\ Succeeded(t)
         => result.type = "return" /\ result.value = t /\ result.made = 0

\* mayFail bound to the test registry has returned the tagged error made
\* under the other registry, whose code is no key of the bound one.
C22_Witness ==
  /\ errorMap = TEST_ERRORS
  /\ Succeeded(InputErrorB)
  /\ result.type = "return" /\ result.value = InputErrorB
  /\ ~isErrorCode(errorMap, result.value.code)

\* C23: the tagged error promiseMapMayFail returns has no cause, and its meta
\* is the caller's meta with errors set to the rejected or fulfilled-with-error
\* outcomes and results to the fulfilled outcomes, both in input order,
\* whatever the caller had under those keys; the call leaves its meta
\* argument as it was given.
C23_BatchMeta ==
  /\ [](BatchError =>
          LET failed(item) ==
                item.status = "rejected" \/ item.value.kind = "TSError"
              fulfilled(item) == item.status = "fulfilled"
          IN /\ result.value.cause = Undefined
             /\ result.value.meta =
                  Meta(DefaultMeta(call.meta).customText,
                       Array(SelectSeq(promises, failed)),
                       Array(SelectSeq(promises, fulfilled))))
  /\ [][call.op = "promiseMapMayFail" /\ pc = "awaiting"
          => call'.meta = call.meta]_vars

\* A batch given a meta with its own errors entry, whose second awaitable
\* settled first, returned a tagged error: errors holds the rejected outcome,
\* results the fulfilled one, and the caller's meta still holds its entry.
C23_Witness ==
  /\ BatchError
  /\ settleOrder = <<2, 1>>
  /\ call.meta = Meta(Str("custom text"), Str("mine"), Undefined)
  /\ promises = << [status |-> "fulfilled", value |-> Num(1)],
                   [status |-> "rejected", reason |-> NativeError("test")] >>
  /\ result.value.meta.customText = Str("custom text")
  /\ result.value.meta.errors = Array(<<promises[2]>>)
  /\ result.value.meta.results = Array(<<promises[1]>>)

====
